---- MODULE Spec2Model ----
(***************************************************************************)
(* Model of uavcan/monitors/__init__.py: the node status monitor           *)
(* (NodeStatusMonitor) and the dynamic node-ID allocation server           *)
(* (DynamicNodeIDServer).  Messages are handled one at a time; every       *)
(* action below is one complete run of a handler.                          *)
(***************************************************************************)
EXTENDS Integers, Sequences, FiniteSets

\* ---------------------------------------------------------------- bounds
\* highest node ID that appears on the modelled bus (127 on a real bus)
TopAddr == 4
\* unique-ID fragments of 6 bytes are filled with one byte value of 1..MaxByte
MaxByte == 2
\* unique-ID fragments of 4 bytes are filled with one byte value of 1..MaxTail
MaxTail == 1
\* node IDs 1..MaxStatusNode broadcast NodeStatus
MaxStatusNode == 1
\* uptime_sec reported in a NodeStatus is in 0..MaxUptime
MaxUptime == 1
\* last instant at which the monotonic clock is read
MaxTime == 31
\* node IDs 1..MaxRegistryNode broadcast NodeStatus when the status monitor
\* runs on its own (SpecRegistry)
MaxRegistryNode == 2

\* ------------------------------------------------------ program constants
TIMEOUT == 30
QUERY_TIMEOUT == 3
\* Python's None (node_allocated_id = None); it is falsy, like 0
None == -1

\* ------------------------------------------------------------- the state
VARIABLES
    now,               \* the value time.monotonic() last returned
    self_node_id,      \* self.node.node_id, the server's own node ID
    dynamic_id_range,  \* self.dynamic_id_range, <<lowest, highest>>
    NODE_STATUS,       \* NodeStatusMonitor.NODE_STATUS: node ID -> uptime_sec of its last status
    NODE_TIMESTAMP,    \* NodeStatusMonitor.NODE_TIMESTAMP: node ID -> time of its last status
    QUERY,             \* DynamicNodeIDServer.QUERY, the unique-ID bytes collected so far
    QUERY_TIME,        \* DynamicNodeIDServer.QUERY_TIME
    ALLOCATION,        \* DynamicNodeIDServer.ALLOCATION: unique ID -> node ID or None
    message,           \* self.message / self.transfer of the handler that ran last
    branch,            \* the branch of the handler that ran last
    local,             \* the locals of the third-stage branch when it ran last
    broadcasts,        \* what the last handler passed to self.node.broadcast, in order
    requests,          \* the node IDs the last handler passed to self.node.request
    client_stage       \* per client, how many fragments of its handshake it has sent

vars == <<now, self_node_id, dynamic_id_range, NODE_STATUS, NODE_TIMESTAMP, QUERY,
          QUERY_TIME, ALLOCATION, message, branch, local, broadcasts, requests,
          client_stage>>

\* ------------------------------------------------------------ the inputs
\* time.monotonic() is read at these instants: multiples of TIMEOUT + 1, and
\* QUERY_TIMEOUT + 1 after them
Instants ==
    {t \in 0..MaxTime : (t % (TIMEOUT + 1)) \in {0, QUERY_TIMEOUT + 1}}

Fill(b, n) == [i \in 1..n |-> b]

Fragments == {Fill(b, 6) : b \in 1..MaxByte} \cup {Fill(b, 4) : b \in 1..MaxTail}

\* uavcan.protocol.dynamic_node_id.Allocation as received; node_id is read from
\* the third-stage fragment only, the other fragments carry node_id 0 here
AllocationMessages ==
    {m \in [type : {"Allocation"}, first_part_of_unique_id : {0, 1}, unique_id : Fragments,
            node_id : 0..TopAddr, source_node_id : {0}, uptime_sec : {0}] :
        m.node_id # 0 => (m.first_part_of_unique_id = 0 /\ Len(m.unique_id) = 4)}

\* uavcan.protocol.NodeStatus as received, with the transfer's source node ID
NodeStatusMessages ==
    [type : {"NodeStatus"}, first_part_of_unique_id : {0}, unique_id : {<<>>},
     node_id : {0}, source_node_id : 1..MaxStatusNode, uptime_sec : 0..MaxUptime]

\* NodeStatus messages when the status monitor runs on its own
RegistryMessages ==
    [type : {"NodeStatus"}, first_part_of_unique_id : {0}, unique_id : {<<>>},
     node_id : {0}, source_node_id : 1..MaxRegistryNode, uptime_sec : 0..MaxUptime]

\* the clients that ask for a node ID: client c has the unique ID ClientId(c)
Clients == 1..MaxByte

ClientTail(c) == Fill(((c - 1) % MaxTail) + 1, 4)

ClientId(c) == Fill(c, 6) \o Fill(c, 6) \o ClientTail(c)

\* the k-th fragment of client c's handshake; the third one requests node ID r
ClientFragment(c, k, r) ==
    [type |-> "Allocation",
     first_part_of_unique_id |-> IF k = 1 THEN 1 ELSE 0,
     unique_id |-> IF k = 3 THEN ClientTail(c) ELSE Fill(c, 6),
     node_id |-> IF k = 3 THEN r ELSE 0,
     source_node_id |-> 0, uptime_sec |-> 0]

NoMessage ==
    [type |-> "none", first_part_of_unique_id |-> 0, unique_id |-> <<>>,
     node_id |-> 0, source_node_id |-> 0, uptime_sec |-> 0]

NoLocal ==
    [node_requested_id |-> 0, in_allocation |-> FALSE, known |-> None,
     node_allocated_id |-> None]

\* --------------------------------------------------------------- helpers
\* Python truth value of None or an integer
Truthy(x) == x # None /\ x # 0

\* the store left out
DictSet_Missing(d, k, v) == d

\* d[k] = v on a dict
DictSet(d, k, v) == [x \in (DOMAIN d) \cup {k} |-> IF x = k THEN v ELSE d[x]]

\* set(d.itervalues())
DictValues(d) == {d[k] : k \in DOMAIN d}

\* the Allocation message the server broadcasts
Response(nid, uid) == [first_part_of_unique_id |-> 0, node_id |-> nid, unique_id |-> uid]

\* for node_id in range(start, stop): if node_id not in allocated: take it, break
RECURSIVE ScanUp(_, _, _)
ScanUp(start, stop, allocated) ==
    IF start >= stop THEN None
    ELSE IF start \notin allocated THEN start
    ELSE ScanUp(start + 1, stop, allocated)

\* for node_id in range(start, stop, -1): if node_id not in allocated: take it, break
RECURSIVE ScanDown(_, _, _)
ScanDown(start, stop, allocated) ==
    IF start <= stop THEN None
    ELSE IF start \notin allocated THEN start
    ELSE ScanDown(start - 1, stop, allocated)

\* allocated_node_ids without the node IDs of the allocation table
AllocatedNodeIds_NoTable == (DOMAIN NODE_STATUS) \cup {self_node_id}

\* allocated_node_ids without the node IDs the status monitor has seen
AllocatedNodeIds_NoStatus == DictValues(ALLOCATION) \cup {self_node_id}

\* allocated_node_ids of the third-stage branch
AllocatedNodeIds ==
    DictValues(ALLOCATION) \cup (DOMAIN NODE_STATUS) \cup {self_node_id}

\* the lookup of an earlier allocation left out
Known_Forgets(query) == None

\* node_allocated_id after "if QUERY in ALLOCATION"
Known(query) == IF query \in DOMAIN ALLOCATION THEN ALLOCATION[query] ELSE None

\* the upward scan started at the bottom of the range, not at the requested ID
AfterRequested_FromBottom(requested, known, allocated) ==
    IF Truthy(requested) /\ ~Truthy(known)
    THEN ScanUp(dynamic_id_range[1], dynamic_id_range[2], allocated)
    ELSE known

\* the highest free node ID from the requested one upward, not the first
AfterRequested_HighestFirst(requested, known, allocated) ==
    IF Truthy(requested) /\ ~Truthy(known)
    THEN ScanDown(dynamic_id_range[2] - 1, requested - 1, allocated)
    ELSE known

\* node_allocated_id after "if node_requested_id and not node_allocated_id"
AfterRequested(requested, known, allocated) ==
    IF Truthy(requested) /\ ~Truthy(known)
    THEN ScanUp(requested, dynamic_id_range[2], allocated)
    ELSE known

\* the downward scan started below the top of the range
AfterHighest_BelowTop(sofar, allocated) ==
    IF ~Truthy(sofar)
    THEN ScanDown(dynamic_id_range[2] - 1, dynamic_id_range[1], allocated)
    ELSE sofar

\* node_allocated_id after "if not node_allocated_id"
AfterHighest(sofar, allocated) ==
    IF ~Truthy(sofar)
    THEN ScanDown(dynamic_id_range[2], dynamic_id_range[1], allocated)
    ELSE sofar

\* the node ID the third-stage branch ends up with for the completed query
Allocate(query, requested) ==
    AfterHighest(AfterRequested(requested, Known(query), AllocatedNodeIds),
                 AllocatedNodeIds)

\* a response broadcast on failure too, with node ID 0
GrantBroadcasts_Always(node_allocated_id, query) ==
    <<Response(IF Truthy(node_allocated_id) THEN node_allocated_id ELSE 0, query)>>

\* if node_allocated_id: broadcast the allocation; else: only log the error
GrantBroadcasts(node_allocated_id, query) ==
    IF Truthy(node_allocated_id) THEN <<Response(node_allocated_id, query)>> ELSE <<>>

\* ------------------------------------------------------------------ Init
\* the server runs as node 2; its range is 1..TopAddr or 2..TopAddr
Init ==
    /\ now = 0
    /\ self_node_id = 2
    /\ dynamic_id_range \in {<<lo, TopAddr>> : lo \in 1..2}
    /\ NODE_STATUS = <<>>
    /\ NODE_TIMESTAMP = <<>>
    /\ QUERY = <<>>
    /\ QUERY_TIME = 0
    /\ ALLOCATION = <<>>
    /\ message = NoMessage
    /\ branch = "init"
    /\ local = NoLocal
    /\ broadcasts = <<>>
    /\ requests = {}
    /\ client_stage = [c \in Clients |-> 0]

\* ------------------------------------- DynamicNodeIDServer.on_message
\* the second-stage test without the test of the query's length
IsSecond_AnyQuery(m) == Len(m.unique_id) = 6

\* elif len(self.message.unique_id) == 6 and len(QUERY) == 6
IsSecond(m) == Len(m.unique_id) = 6 /\ Len(QUERY) = 6

\* the third-stage test without the test of the query's length
IsThird_AnyQuery(m) == Len(m.unique_id) = 4

\* elif len(self.message.unique_id) == 4 and len(QUERY) == 12
IsThird(m) == Len(m.unique_id) = 4 /\ Len(QUERY) = 12

\* the query compared with the status monitor's timeout
Expired_StatusTimeout(t) == t - QUERY_TIME > TIMEOUT

\* elif time.monotonic() - QUERY_TIME > QUERY_TIMEOUT
Expired(t) == t - QUERY_TIME > QUERY_TIMEOUT

\* the handler runs on message m and reads the clock as t; it touches neither
\* the configuration nor the status monitor's registries and requests nothing
Handles(m, t) ==
    /\ t >= now
    /\ now' = t
    /\ message' = m
    /\ requests' = {}
    /\ UNCHANGED <<self_node_id, dynamic_id_range, NODE_STATUS, NODE_TIMESTAMP>>

\* the first-stage branch adding to the query instead of replacing it
FirstStage_Appends(m, t) ==
    /\ Handles(m, t)
    /\ m.first_part_of_unique_id # 0
    /\ QUERY' = QUERY \o m.unique_id
    /\ QUERY_TIME' = t
    /\ broadcasts' = <<Response(0, QUERY')>>
    /\ branch' = "first"
    /\ local' = NoLocal
    /\ UNCHANGED ALLOCATION

\* if self.message.first_part_of_unique_id:
FirstStage(m, t) ==
    /\ Handles(m, t)
    /\ m.first_part_of_unique_id # 0
    /\ QUERY' = m.unique_id
    /\ QUERY_TIME' = t
    /\ broadcasts' = <<Response(0, QUERY')>>
    /\ branch' = "first"
    /\ local' = NoLocal
    /\ UNCHANGED ALLOCATION

\* elif len(self.message.unique_id) == 6 and len(QUERY) == 6:
SecondStage(m, t) ==
    /\ Handles(m, t)
    /\ m.first_part_of_unique_id = 0
    /\ IsSecond(m)
    /\ QUERY' = QUERY \o m.unique_id
    /\ QUERY_TIME' = t
    /\ broadcasts' = <<Response(0, QUERY')>>
    /\ branch' = "second"
    /\ local' = NoLocal
    /\ UNCHANGED ALLOCATION

\* the third-stage branch with the query emptied once the allocation is made
ThirdStage_Resets(m, t) ==
    /\ Handles(m, t)
    /\ m.first_part_of_unique_id = 0
    /\ ~IsSecond(m)
    /\ IsThird(m)
    /\ QUERY' = <<>>
    /\ QUERY_TIME' = t
    /\ LET query == QUERY \o m.unique_id
           node_allocated_id == Allocate(query, m.node_id)
       IN /\ ALLOCATION' = DictSet(ALLOCATION, query, node_allocated_id)
          /\ broadcasts' = GrantBroadcasts(node_allocated_id, query)
          /\ local' = [node_requested_id |-> m.node_id,
                       in_allocation |-> (query \in DOMAIN ALLOCATION),
                       known |-> Known(query),
                       node_allocated_id |-> node_allocated_id]
    /\ branch' = "third"

\* elif len(self.message.unique_id) == 4 and len(QUERY) == 12:
ThirdStage(m, t) ==
    /\ Handles(m, t)
    /\ m.first_part_of_unique_id = 0
    /\ ~IsSecond(m)
    /\ IsThird(m)
    /\ QUERY' = QUERY \o m.unique_id
    /\ QUERY_TIME' = t
    /\ LET node_allocated_id == Allocate(QUERY', m.node_id)
       IN /\ ALLOCATION' = DictSet(ALLOCATION, QUERY', node_allocated_id)
          /\ broadcasts' = GrantBroadcasts(node_allocated_id, QUERY')
          /\ local' = [node_requested_id |-> m.node_id,
                       in_allocation |-> (QUERY' \in DOMAIN ALLOCATION),
                       known |-> Known(QUERY'),
                       node_allocated_id |-> node_allocated_id]
    /\ branch' = "third"

\* elif time.monotonic() - QUERY_TIME > QUERY_TIMEOUT:
QueryTimeout(m, t) ==
    /\ Handles(m, t)
    /\ m.first_part_of_unique_id = 0
    /\ ~IsSecond(m)
    /\ ~IsThird(m)
    /\ Expired(t)
    /\ QUERY' = <<>>
    /\ broadcasts' = <<>>
    /\ branch' = "timeout"
    /\ local' = NoLocal
    /\ UNCHANGED <<QUERY_TIME, ALLOCATION>>

\* no branch of the if/elif chain is taken
Ignored(m, t) ==
    /\ Handles(m, t)
    /\ m.first_part_of_unique_id = 0
    /\ ~IsSecond(m)
    /\ ~IsThird(m)
    /\ ~Expired(t)
    /\ broadcasts' = <<>>
    /\ branch' = "ignored"
    /\ local' = NoLocal
    /\ UNCHANGED <<QUERY, QUERY_TIME, ALLOCATION>>

\* --------------------------------------- NodeStatusMonitor.on_message
\* NODE_TIMESTAMP is a defaultdict(float)
LastTimestamp(n) == IF n \in DOMAIN NODE_TIMESTAMP THEN NODE_TIMESTAMP[n] ELSE 0

LastNodeUptime(n) == IF n \in DOMAIN NODE_STATUS THEN NODE_STATUS[n] ELSE 0

\* the test without the comparison of the uptimes
NeedsInfo_NoRestart(m, u) == u - LastTimestamp(m.source_node_id) > TIMEOUT

\* if time.monotonic() - last_timestamp > TIMEOUT or uptime_sec < last_node_uptime
NeedsInfo(m, u) ==
    \/ u - LastTimestamp(m.source_node_id) > TIMEOUT
    \/ m.uptime_sec < LastNodeUptime(m.source_node_id)

\* the handler reads the clock twice: as t for the registry, then as u for the
\* timeout test
NodeStatus(m, t, u) ==
    /\ t >= now
    /\ u >= t
    /\ now' = u
    /\ message' = m
    /\ NODE_STATUS' = DictSet(NODE_STATUS, m.source_node_id, m.uptime_sec)
    /\ NODE_TIMESTAMP' = DictSet(NODE_TIMESTAMP, m.source_node_id, t)
    /\ requests' = IF NeedsInfo(m, u) THEN {m.source_node_id} ELSE {}
    /\ branch' = "status"
    /\ local' = NoLocal
    /\ broadcasts' = <<>>
    /\ UNCHANGED <<self_node_id, dynamic_id_range, QUERY, QUERY_TIME, ALLOCATION>>

\* ------------------------------------------------------------------ Next
\* any fragment and any status message may arrive at any time
Next ==
    \/ \E m \in AllocationMessages, t \in Instants :
           FirstStage(m, t) /\ UNCHANGED client_stage
    \/ \E m \in AllocationMessages, t \in Instants :
           SecondStage(m, t) /\ UNCHANGED client_stage
    \/ \E m \in AllocationMessages, t \in Instants :
           ThirdStage(m, t) /\ UNCHANGED client_stage
    \/ \E m \in AllocationMessages, t \in Instants :
           QueryTimeout(m, t) /\ UNCHANGED client_stage
    \/ \E m \in AllocationMessages, t \in Instants :
           Ignored(m, t) /\ UNCHANGED client_stage
    \/ \E m \in NodeStatusMessages, t \in Instants, u \in Instants :
           NodeStatus(m, t, u) /\ UNCHANGED client_stage

Spec == Init /\ [][Next]_vars

\* ------------------------------------- the clients' handshakes interleaved
\* client c sends the next fragment of its handshake (first part, 6 bytes,
\* 4 bytes with the requested node ID r, then over again) and the server
\* handles it at time t
ClientSends(c, r, t) ==
    LET k == client_stage[c] + 1
        m == ClientFragment(c, k, r)
    IN /\ k # 3 => r = 0
       /\ client_stage' = [client_stage EXCEPT ![c] = k % 3]
       /\ \/ FirstStage(m, t)
          \/ SecondStage(m, t)
          \/ ThirdStage(m, t)
          \/ QueryTimeout(m, t)
          \/ Ignored(m, t)

NextClients == \E c \in Clients, r \in 0..TopAddr, t \in Instants : ClientSends(c, r, t)

SpecClients == Init /\ [][NextClients]_vars

\* ------------------------------------------ the status monitor on its own
NextRegistry ==
    \E m \in RegistryMessages, t \in Instants, u \in Instants :
        NodeStatus(m, t, u) /\ UNCHANGED client_stage

SpecRegistry == Init /\ [][NextRegistry]_vars

\* ============================================================ properties
\* the excluded set of an allocation: the node IDs of the allocation table,
\* the node IDs with a status entry and the server's own node ID
Excluded ==
    {ALLOCATION[q] : q \in DOMAIN ALLOCATION} \cup (DOMAIN NODE_STATUS) \cup {self_node_id}

\* the unique ID has been granted a node ID (an entry that is not a failure)
Granted(q) == q \in DOMAIN ALLOCATION /\ Truthy(ALLOCATION[q])

Highest(S) == CHOOSE a \in S : \A b \in S : b <= a

\* C1: once a unique ID has been granted a node ID A, its table entry stays A
\* in every later step, and every later completion of the same unique ID is
\* answered with a grant of A, whatever node ID the third fragment requests.
C1_IdempotentRequery ==
    [][\A q \in DOMAIN ALLOCATION :
          Truthy(ALLOCATION[q]) =>
              /\ q \in DOMAIN ALLOCATION'
              /\ ALLOCATION'[q] = ALLOCATION[q]
              /\ (branch' = "third" /\ QUERY' = q) =>
                     /\ local'.node_allocated_id = ALLOCATION[q]
                     /\ broadcasts' = <<Response(ALLOCATION[q], q)>>]_vars

\* a completion of an already granted unique ID that requests another node
\* ID, one that is free, and is granted its old node ID again
C1_Witness ==
    /\ branch = "third"
    /\ Truthy(local.known)
    /\ local.node_requested_id \notin {0, local.known}
    /\ local.node_requested_id \notin Excluded
    /\ local.node_requested_id < dynamic_id_range[2]
    /\ DOMAIN NODE_STATUS # {}
    /\ broadcasts = <<Response(local.known, QUERY)>>

\* C2: no two distinct unique IDs of the allocation table hold the same
\* granted node ID.
C2_AddressUniqueness ==
    \A q1, q2 \in DOMAIN ALLOCATION :
        (q1 # q2 /\ Truthy(ALLOCATION[q1]) /\ Truthy(ALLOCATION[q2]))
            => ALLOCATION[q1] # ALLOCATION[q2]

\* three unique IDs hold granted node IDs
C2_Witness ==
    Cardinality({q \in DOMAIN ALLOCATION : Truthy(ALLOCATION[q])}) >= 3

\* C3: when a unique ID without a table entry is granted a node ID, that node
\* ID is neither the server's own node ID nor a node ID with a status entry.
C3_CollisionAvoidance ==
    [][(branch' = "third" /\ QUERY' \notin DOMAIN ALLOCATION
            /\ Truthy(ALLOCATION'[QUERY']))
          => /\ ALLOCATION'[QUERY'] # self_node_id
             /\ ALLOCATION'[QUERY'] \notin DOMAIN NODE_STATUS
             /\ broadcasts' = <<Response(ALLOCATION'[QUERY'], QUERY')>>]_vars

\* a unique ID without a table entry requested the node ID of a node with a
\* status entry and was granted another one
C3_Witness ==
    /\ branch = "third"
    /\ ~local.in_allocation
    /\ local.node_requested_id \in DOMAIN NODE_STATUS
    /\ Truthy(local.node_allocated_id)
    /\ broadcasts = <<Response(local.node_allocated_id, QUERY)>>

\* C4 as claimed: every completion that requests a non-zero node ID R, with a
\* node ID in R..MAX_ADDR-1 outside the excluded set, resolves to a node ID >= R.
C4_Original ==
    [][(/\ branch' = "third"
        /\ message'.node_id # 0
        /\ \E a \in message'.node_id..(dynamic_id_range[2] - 1) : a \notin Excluded)
          => ALLOCATION'[QUERY'] >= message'.node_id]_vars

\* C4 as amended: the same, for the completion of a unique ID that has not
\* been granted a node ID before.
C4_RequestedPreference ==
    [][(/\ branch' = "third"
        /\ ~Granted(QUERY')
        /\ message'.node_id # 0
        /\ \E a \in message'.node_id..(dynamic_id_range[2] - 1) : a \notin Excluded)
          => /\ ALLOCATION'[QUERY'] >= message'.node_id
             /\ broadcasts' = <<Response(ALLOCATION'[QUERY'], QUERY')>>]_vars

\* a new unique ID requested a taken node ID and was granted a higher one
\* below the top of the range
C4_Witness ==
    /\ branch = "third"
    /\ ~local.in_allocation
    /\ local.node_requested_id # 0
    /\ local.node_allocated_id > local.node_requested_id
    /\ local.node_allocated_id < dynamic_id_range[2]

\* C5 as claimed: when the requested node ID R is zero or no node ID >= R is
\* free, the completion resolves to the highest node ID a with
\* MIN_ADDR < a < MAX_ADDR outside the excluded set, and fails when there is none.
C5_Original ==
    [][(/\ branch' = "third"
        /\ \/ message'.node_id = 0
           \/ \A a \in message'.node_id..(dynamic_id_range[2] - 1) : a \in Excluded)
          => LET free == {a \in (dynamic_id_range[1] + 1)..(dynamic_id_range[2] - 1) :
                              a \notin Excluded}
             IN IF free = {} THEN ~Truthy(ALLOCATION'[QUERY'])
                ELSE ALLOCATION'[QUERY'] = Highest(free)]_vars

\* C5 as amended: for a unique ID that has not been granted a node ID before,
\* when R is zero or no node ID of R..MAX_ADDR-1 is free, the completion
\* resolves to the highest node ID a with MIN_ADDR < a <= MAX_ADDR outside
\* the excluded set, and fails when there is none.
C5_Fallback ==
    [][(/\ branch' = "third"
        /\ ~Granted(QUERY')
        /\ \/ message'.node_id = 0
           \/ \A a \in message'.node_id..(dynamic_id_range[2] - 1) : a \in Excluded)
          => LET free == {a \in (dynamic_id_range[1] + 1)..dynamic_id_range[2] :
                              a \notin Excluded}
             IN IF free = {} THEN ~Truthy(ALLOCATION'[QUERY'])
                ELSE ALLOCATION'[QUERY'] = Highest(free)]_vars

\* a new unique ID requested a non-zero node ID, none was free from there
\* upward, and it was granted a node ID below the requested one
C5_Witness ==
    /\ branch = "third"
    /\ ~local.in_allocation
    /\ local.node_requested_id # 0
    /\ Truthy(local.node_allocated_id)
    /\ local.node_allocated_id < local.node_requested_id

\* C6 as claimed: a completion that finds no free node ID leaves the
\* allocation table as it was.
C6_ExhaustionLeavesTable ==
    [][(branch' = "third" /\ ~Truthy(local'.node_allocated_id))
          => ALLOCATION' = ALLOCATION]_vars

\* C7: a completion that resolves to no node ID broadcasts nothing.
C7_NoGrantOnExhaustion ==
    (branch = "third" /\ ~Truthy(ALLOCATION[QUERY])) => broadcasts = <<>>

\* a completion has failed on a request for node ID 0
C7_Witness ==
    /\ branch = "third"
    /\ local.node_requested_id = 0
    /\ local.node_allocated_id = None

\* a fragment is handled by the step
FragmentStep == branch' \in {"first", "second", "third", "timeout", "ignored"}

\* C8 as claimed: a fragment that arrives more than QUERY_TIMEOUT after the
\* last accepted fragment leaves the session buffer empty.
C8_Original ==
    [][(FragmentStep /\ QUERY # <<>> /\ now' - QUERY_TIME > QUERY_TIMEOUT)
          => QUERY' = <<>>]_vars

\* C8 as amended: a fragment without the first-part flag that does not match
\* the stage of the session (not 6 bytes on a 6-byte buffer, not 4 bytes on a
\* 12-byte buffer) and arrives more than QUERY_TIMEOUT after the last accepted
\* fragment leaves the session buffer empty, and nothing is broadcast.
C8_TimeoutResets ==
    [][(/\ FragmentStep
        /\ message'.first_part_of_unique_id = 0
        /\ ~(Len(message'.unique_id) = 6 /\ Len(QUERY) = 6)
        /\ ~(Len(message'.unique_id) = 4 /\ Len(QUERY) = 12)
        /\ now' - QUERY_TIME > QUERY_TIMEOUT)
          => QUERY' = <<>> /\ broadcasts' = <<>>]_vars

\* a fragment arrived after the timeout but within the status monitor's
\* timeout of an accepted fragment and emptied the buffer
C8_Witness ==
    /\ branch = "timeout"
    /\ QUERY = <<>>
    /\ QUERY_TIME > 0
    /\ now - QUERY_TIME > QUERY_TIMEOUT
    /\ now - QUERY_TIME <= TIMEOUT

\* C9 as claimed: after the third fragment has been processed the session
\* buffer is empty.
C9_Original == branch = "third" => QUERY = <<>>

\* C9 as amended: after the third fragment has been processed the session
\* buffer holds the complete 16-byte unique ID that was resolved, whether the
\* allocation succeeded or failed.
C9_CompletionKeepsQuery ==
    branch = "third" =>
        /\ Len(QUERY) = 16
        /\ SubSeq(QUERY, 13, 16) = message.unique_id
        /\ QUERY \in DOMAIN ALLOCATION
        /\ ALLOCATION[QUERY] = local.node_allocated_id

\* a failed allocation has left the 16-byte unique ID in the buffer
C9_Witness ==
    /\ branch = "third"
    /\ Len(QUERY) = 16
    /\ broadcasts = <<>>

\* C10 as claimed: the session buffer is 0, 6, 12 or 16 bytes long.
C10_BufferLength == Len(QUERY) \in {0, 6, 12, 16}

\* C11 as claimed: with the clients' handshakes interleaved, every unique ID
\* of the allocation table is the unique ID of one client.
C11_InterleavingGuard ==
    \A q \in DOMAIN ALLOCATION : \E c \in Clients : q = ClientId(c)

\* C12 as claimed: the first status ever observed from a node ID makes the
\* monitor request the node's info, whatever the clock and the uptime.
C12_FirstSightRefreshes ==
    [][(branch' = "status" /\ message'.source_node_id \notin DOMAIN NODE_STATUS)
          => requests' = {message'.source_node_id}]_vars

\* C13: for a node ID with a status entry, the monitor requests the node's
\* info if and only if the clock is more than TIMEOUT past the entry's
\* timestamp or the new uptime is lower than the stored one; the entry's
\* status and timestamp are overwritten and the other entries are unchanged.
C13_RefreshDecision ==
    [][(branch' = "status" /\ message'.source_node_id \in DOMAIN NODE_STATUS)
          => LET n == message'.source_node_id
             IN /\ (n \in requests') <=>
                       \/ now' - NODE_TIMESTAMP[n] > TIMEOUT
                       \/ message'.uptime_sec < NODE_STATUS[n]
                /\ requests' \subseteq {n}
                /\ NODE_STATUS'[n] = message'.uptime_sec
                /\ NODE_TIMESTAMP'[n] \in now..now'
                /\ DOMAIN NODE_STATUS' = DOMAIN NODE_STATUS
                /\ DOMAIN NODE_TIMESTAMP' = DOMAIN NODE_TIMESTAMP
                /\ \A o \in (DOMAIN NODE_STATUS) \ {n} :
                       /\ NODE_STATUS'[o] = NODE_STATUS[o]
                       /\ NODE_TIMESTAMP'[o] = NODE_TIMESTAMP[o]]_vars

\* with two nodes in the registry, a node reported a lower uptime within the
\* timeout and its info was requested; the other node's entry is older
C13_Witness ==
    /\ branch = "status"
    /\ requests = {message.source_node_id}
    /\ now <= TIMEOUT
    /\ NODE_TIMESTAMP[message.source_node_id] > 0
    /\ \E o \in DOMAIN NODE_STATUS :
           /\ o # message.source_node_id
           /\ NODE_STATUS[o] > message.uptime_sec
           /\ NODE_TIMESTAMP[o] < NODE_TIMESTAMP[message.source_node_id]

\* C14: a fragment without the first-part flag that does not match the stage
\* of the session and arrives no more than QUERY_TIMEOUT after the last
\* accepted fragment changes neither the session buffer, nor its timestamp,
\* nor the allocation table, and nothing is broadcast.
C14_MisSequencedIgnored ==
    [][(/\ FragmentStep
        /\ message'.first_part_of_unique_id = 0
        /\ ~(Len(message'.unique_id) = 6 /\ Len(QUERY) = 6)
        /\ ~(Len(message'.unique_id) = 4 /\ Len(QUERY) = 12)
        /\ now' - QUERY_TIME <= QUERY_TIMEOUT)
          => /\ QUERY' = QUERY
             /\ QUERY_TIME' = QUERY_TIME
             /\ ALLOCATION' = ALLOCATION
             /\ broadcasts' = <<>>]_vars

\* a 6-byte fragment of other bytes arrived on a 12-byte buffer within the
\* timeout, after an allocation, and was ignored
C14_Witness ==
    /\ branch = "ignored"
    /\ Len(QUERY) = 12
    /\ Len(message.unique_id) = 6
    /\ message.unique_id # SubSeq(QUERY, 7, 12)
    /\ now - QUERY_TIME <= QUERY_TIMEOUT
    /\ DOMAIN ALLOCATION # {}

\* C15: in every state a first-part fragment replaces the session buffer by
\* its bytes; a 6-byte fragment that follows a first-part fragment of 6 bytes
\* is appended to it; a 4-byte fragment that follows the two is appended and
\* the allocation runs on the three fragments' concatenation.  So a handshake
\* of three fragments in an uninterrupted row resolves the concatenation of
\* the three, with no byte of the earlier buffer.
C15_RecoveryByRestart ==
    [][/\ (FragmentStep /\ message'.first_part_of_unique_id # 0)
              => (branch' = "first" /\ QUERY' = message'.unique_id)
       /\ (/\ FragmentStep
           /\ branch = "first"
           /\ Len(message.unique_id) = 6
           /\ message'.first_part_of_unique_id = 0
           /\ Len(message'.unique_id) = 6)
              => (branch' = "second" /\ QUERY' = message.unique_id \o message'.unique_id)
       /\ (/\ FragmentStep
           /\ branch = "second"
           /\ message'.first_part_of_unique_id = 0
           /\ Len(message'.unique_id) = 4)
              => /\ branch' = "third"
                 /\ QUERY' = QUERY \o message'.unique_id
                 /\ SubSeq(QUERY', 7, 12) = message.unique_id
                 /\ QUERY' \in DOMAIN ALLOCATION'
                 /\ ALLOCATION'[QUERY'] = local'.node_allocated_id]_vars

\* a handshake has completed after the timeout of an earlier completion, whose
\* 16 bytes were still in the buffer when it began
C15_Witness ==
    /\ branch = "third"
    /\ QUERY_TIME > QUERY_TIMEOUT
    /\ \E q \in DOMAIN ALLOCATION :
           /\ SubSeq(q, 1, 6) # SubSeq(QUERY, 1, 6)
           /\ SubSeq(q, 7, 12) # SubSeq(QUERY, 7, 12)

\* C16: whenever a grant of node ID A for a unique ID is broadcast, the
\* allocation table maps the unique ID to A, and it does so from then on.
C16_RecordBeforeGrant ==
    [][/\ \A i \in 1..Len(broadcasts') :
              broadcasts'[i].node_id # 0
                  => /\ broadcasts'[i].unique_id \in DOMAIN ALLOCATION'
                     /\ ALLOCATION'[broadcasts'[i].unique_id] = broadcasts'[i].node_id
       /\ \A q \in DOMAIN ALLOCATION :
              Truthy(ALLOCATION[q])
                  => (q \in DOMAIN ALLOCATION' /\ ALLOCATION'[q] = ALLOCATION[q])]_vars

\* a unique ID without a table entry has been granted a node ID and the
\* table holds it
C16_Witness ==
    /\ branch = "third"
    /\ ~local.in_allocation
    /\ Len(broadcasts) = 1
    /\ broadcasts[1].node_id # 0
    /\ ALLOCATION[broadcasts[1].unique_id] = broadcasts[1].node_id

Lowest(S) == CHOOSE a \in S : \A b \in S : a <= b

\* C17: a unique ID without a table entry that requests a non-zero node ID R,
\* with a node ID of R..MAX_ADDR-1 outside the excluded set, is granted the
\* lowest such node ID; and the upward scan never yields MAX_ADDR.
C17_UpwardScan ==
    [][/\ (/\ branch' = "third"
           /\ QUERY' \notin DOMAIN ALLOCATION
           /\ message'.node_id # 0
           /\ \E a \in message'.node_id..(dynamic_id_range[2] - 1) : a \notin Excluded)
              => /\ ALLOCATION'[QUERY'] =
                        Lowest({a \in message'.node_id..(dynamic_id_range[2] - 1) :
                                    a \notin Excluded})
                 /\ broadcasts' = <<Response(ALLOCATION'[QUERY'], QUERY')>>
       /\ \A r \in 1..TopAddr :
              AfterRequested(r, None, Excluded) # dynamic_id_range[2]]_vars

\* a new unique ID was granted the node ID it requested while a higher node
\* ID below the top of the range was free as well
C17_Witness ==
    /\ branch = "third"
    /\ ~local.in_allocation
    /\ local.node_requested_id # 0
    /\ local.node_allocated_id = local.node_requested_id
    /\ \E a \in (local.node_requested_id + 1)..(dynamic_id_range[2] - 1) : a \notin Excluded

\* C18 as claimed: an accepted first-stage fragment is echoed by exactly one
\* broadcast with first-part flag 0, node ID 0 and the 6 bytes of the buffer,
\* an accepted second-stage fragment by one with the 12 bytes of the buffer,
\* and a grant carries a non-zero node ID and the 16 bytes of the unique ID.
C18_StageEchoes ==
    /\ branch = "first" =>
           (broadcasts = <<Response(0, QUERY)>> /\ Len(broadcasts[1].unique_id) = 6)
    /\ branch = "second" =>
           (broadcasts = <<Response(0, QUERY)>> /\ Len(broadcasts[1].unique_id) = 12)
    /\ (branch = "third" /\ broadcasts # <<>>) =>
           /\ Len(broadcasts) = 1
           /\ broadcasts[1].first_part_of_unique_id = 0
           /\ broadcasts[1].node_id # 0
           /\ Len(broadcasts[1].unique_id) = 16

\* C19 as claimed: every granted node ID lies in the configured range.
C19_GrantsInRange ==
    \A q \in DOMAIN ALLOCATION :
        Truthy(ALLOCATION[q]) =>
            (dynamic_id_range[1] <= ALLOCATION[q] /\ ALLOCATION[q] <= dynamic_id_range[2])

\* C20: every unique ID of the allocation table is 16 bytes long; a buffer of
\* 6 bytes is a first-part fragment, a buffer of 12 bytes a 6-byte buffer with
\* a 6-byte fragment appended, and the allocation table changes only by the
\* entry of a 12-byte buffer with a 4-byte fragment appended.
C20_OnlyCompleteIds ==
    [][/\ \A q \in DOMAIN ALLOCATION' : Len(q) = 16
       /\ (QUERY' # QUERY /\ Len(QUERY') = 6)
              => /\ message'.first_part_of_unique_id # 0
                 /\ QUERY' = message'.unique_id
       /\ (QUERY' # QUERY /\ Len(QUERY') = 12)
              => /\ message'.first_part_of_unique_id = 0
                 /\ Len(QUERY) = 6
                 /\ Len(message'.unique_id) = 6
                 /\ QUERY' = QUERY \o message'.unique_id
       /\ (branch' = "third" \/ ALLOCATION' # ALLOCATION)
              => /\ message'.first_part_of_unique_id = 0
                 /\ Len(QUERY) = 12
                 /\ Len(message'.unique_id) = 4
                 /\ QUERY' = QUERY \o message'.unique_id
                 /\ DOMAIN ALLOCATION' = (DOMAIN ALLOCATION) \cup {QUERY'}
                 /\ \A q \in DOMAIN ALLOCATION :
                        q # QUERY' => ALLOCATION'[q] = ALLOCATION[q]]_vars

\* after an allocation a first-part fragment of 4 bytes and then a 4-byte
\* fragment have arrived, and the table still holds 16-byte unique IDs only
C20_Witness ==
    /\ DOMAIN ALLOCATION # {}
    /\ Len(QUERY) = 4
    /\ branch \in {"ignored", "timeout"}
    /\ Len(message.unique_id) = 4

====
